---- MODULE Spec2Model ----
(***************************************************************************)
(* Quantitative momentum strategy: the rebalance calendar, the momentum    *)
(* screen and the backtest engine of quantitative_momentum_strategy.py.    *)
(*                                                                         *)
(* Numbers that are floats in the program and whose exact value matters    *)
(* (percentile ranks, combined scores, share counts, returns) are kept as  *)
(* exact fractions [num, den]; momentum and FIP scores enter only through  *)
(* their order and are small integers.                                     *)
(*                                                                         *)
(* The def of screen_momentum_stocks (line 124) is indented one column     *)
(* short of the class body; it is modelled as the method of                *)
(* QuantitativeMomentumStrategy it is written to be.  stock_list holds     *)
(* distinct symbols.                                                       *)
(***************************************************************************)
EXTENDS Integers, Sequences, FiniteSets, TLC

VARIABLES
    pc,               \* where the modelled call stands
    start_date,       \* BacktestEngine.start_date / argument of get_rebalance_dates
    end_date,         \* BacktestEngine.end_date / argument of get_rebalance_dates
    rebalance_dates,  \* the list get_rebalance_dates returned
    raised,           \* TRUE when the last call ended with an uncaught ValueError
    idx,              \* position of the for loop of run_backtest in rebalance_dates
    portfolio_size,   \* QuantitativeMomentumStrategy.portfolio_size
    stock_data,       \* per stock of stock_list, what the download and scorers gave
    portfolio,        \* the frame the last screen_momentum_stocks call returned
    positions,        \* run_backtest's positions dict, in insertion order
    trades,           \* BacktestEngine.trades
    portfolio_value,  \* run_backtest's portfolio_value
    runs,             \* number of run_backtest calls made on the engine
    summary,          \* what the last run_backtest call returned
    selected,         \* history: per pass of the current run, its date and the symbols held after it
    series,           \* the price frame of one stock handed to the two scorers
    momentum,         \* what calculate_generic_momentum returned for series
    fip_score,        \* what calculate_fip_score returned for series
    output_dir,       \* the files of output/: screening_results.csv, previous_portfolio.csv
    loaded,           \* the frame read back from output_dir
    today             \* datetime.now().date() of the last execute_quarterly_rebalance call

vars == <<pc, start_date, end_date, rebalance_dates, raised, idx, portfolio_size,
          stock_data, portfolio, positions, trades, portfolio_value, runs, summary,
          selected, series, momentum, fip_score, output_dir, loaded, today>>

scoreVars == <<series, momentum, fip_score>>

fileVars == <<output_dir, loaded, today>>

(***************************************************************************)
(* Bounds of the model.                                                    *)
(***************************************************************************)
MaxStocks == 3        \* longest stock_list screened on its own
MaxMom == 3           \* momentum scores are 1..MaxMom
MaxFip == 2           \* FIP scores are 1..MaxFip
MaxSpanDays == 1      \* backtest ranges end at most this many days after start
MaxRuns == 2          \* run_backtest calls on one engine
BarSlack == 2         \* scored series have 252 - BarSlack .. 252 + BarSlack bars
MaxWord == 2          \* daily moves repeat a word of at most this many moves

(***************************************************************************)
(* Dates: datetime values with the time of day dropped.                    *)
(***************************************************************************)
D(y, m, d) == [year |-> y, month |-> m, day |-> d]

NoDate == D(0, 0, 0)

\* the Gregorian leap rule of the datetime library
IsLeap(y) == (y % 4 = 0) /\ ((y % 100 # 0) \/ (y % 400 = 0))

DaysInMonth(y, m) ==
    IF m = 2 THEN (IF IsLeap(y) THEN 29 ELSE 28)
    ELSE IF m \in {4, 6, 9, 11} THEN 30 ELSE 31

\* a <= b on datetimes
DateLE(a, b) ==
    \/ a.year < b.year
    \/ a.year = b.year /\ a.month < b.month
    \/ a.year = b.year /\ a.month = b.month /\ a.day <= b.day

DateLT(a, b) == DateLE(a, b) /\ a # b

\* current + timedelta(days=1)
NextDay(dt) ==
    IF dt.day < DaysInMonth(dt.year, dt.month) THEN D(dt.year, dt.month, dt.day + 1)
    ELSE IF dt.month < 12 THEN D(dt.year, dt.month + 1, 1)
    ELSE D(dt.year + 1, 1, 1)

RECURSIVE AddDays(_, _)
AddDays(dt, n) == IF n = 0 THEN dt ELSE AddDays(NextDay(dt), n - 1)

RECURSIVE DaysBeforeMonth(_, _)
DaysBeforeMonth(y, m) ==
    IF m = 1 THEN 0 ELSE DaysBeforeMonth(y, m - 1) + DaysInMonth(y, m - 1)

\* datetime.toordinal(): days since 0001-01-01, plus one
Ordinal(dt) ==
    LET y == dt.year - 1
    IN  365 * y + (y \div 4) - (y \div 100) + (y \div 400)
          + DaysBeforeMonth(dt.year, dt.month) + dt.day

\* (a - b).days
DaysBetween(a, b) == Ordinal(a) - Ordinal(b)

\* current.replace(day=d): ValueError when the month has no such day
Replace(dt, d) ==
    IF d <= DaysInMonth(dt.year, dt.month)
    THEN [ok |-> TRUE, date |-> D(dt.year, dt.month, d)]
    ELSE [ok |-> FALSE, date |-> NoDate]

(***************************************************************************)
(* get_rebalance_dates: one pass of the while loop per calendar day.       *)
(***************************************************************************)
\* the month end the loop body computes for a day of Feb, May, Aug or Nov
MonthEnd(current) ==
    IF current.month = 2
    THEN (IF current.year % 4 = 0 THEN Replace(current, 29) ELSE Replace(current, 28))
    ELSE IF current.month \in {5, 8} THEN Replace(current, 31)
    ELSE Replace(current, 30)

\* the passes of the while loop over the days current..stop of one month
RECURSIVE RebalanceDays(_, _, _)
RebalanceDays(current, stop, acc) ==
    IF ~DateLE(current, stop) THEN [raised |-> FALSE, dates |-> acc]
    ELSE IF current.month \in {2, 5, 8, 11}
         THEN LET me == MonthEnd(current)
              IN  IF ~me.ok THEN [raised |-> TRUE, dates |-> <<>>]
                  ELSE RebalanceDays(NextDay(current), stop, Append(acc, me.date))
         ELSE RebalanceDays(NextDay(current), stop, acc)

\* the whole while loop, taken a month of days at a time
RECURSIVE RebalanceLoop(_, _, _)
RebalanceLoop(current, last, acc) ==
    IF ~DateLE(current, last) THEN [raised |-> FALSE, dates |-> acc]
    ELSE LET eom == D(current.year, current.month,
                      DaysInMonth(current.year, current.month))
             stop == IF DateLE(eom, last) THEN eom ELSE last
             r == RebalanceDays(current, stop, acc)
         IN  IF r.raised THEN r
             ELSE RebalanceLoop(NextDay(stop), last, r.dates)

get_rebalance_dates(start, end) == RebalanceLoop(start, end, <<>>)

(***************************************************************************)
(* Exact fractions with a positive denominator.                            *)
(***************************************************************************)
Frac(n, d) == [num |-> n, den |-> d]

FracLE(a, b) == a.num * b.den <= b.num * a.den

FracLT(a, b) == a.num * b.den < b.num * a.den

FracEq(a, b) == a.num * b.den = b.num * a.den

(***************************************************************************)
(* Strategy parameters set by QuantitativeMomentumStrategy.__init__.       *)
(***************************************************************************)
DefaultPortfolioSize == 40

\* portfolio_size is a plain attribute: 40 unless the caller sets it lower
PortfolioSizes == {1, 2, DefaultPortfolioSize}

momentum_percentile == Frac(9, 10)

MinBars == 252

fip_lookback_days == 252

MomentumMinBars == 252

MomentumWindow == 252

SkipDays == 21

FipWindow == 252

(***************************************************************************)
(* The two scorers.  A price frame is its number of bars, whether it has a *)
(* Close column, and the move of Close from each bar to the next: up is a  *)
(* daily return of +1%, down of -1%, flat of 0.  A momentum value is kept  *)
(* as the numbers of up and down returns it multiplies, standing for       *)
(* 1.01^ups * 0.99^downs - 1.                                              *)
(***************************************************************************)
Moves == {"up", "flat", "down"}

\* stock_data['Close'].pct_change(): NaN for the first bar, then the daily returns
pct_change(sd) == [i \in 1..sd.bars |-> IF i = 1 THEN "nan" ELSE sd.moves[i - 1]]

\* s[a:b] for a negative a and b <= 0 (b = 0 standing for an open end)
PySlice(s, a, b) ==
    LET lo == IF Len(s) + a < 0 THEN 0 ELSE Len(s) + a
        hi == IF b = 0 THEN Len(s) ELSE IF Len(s) + b < 0 THEN 0 ELSE Len(s) + b
    IN  IF hi <= lo THEN <<>> ELSE SubSeq(s, lo + 1, hi)

Count(s, v) == Cardinality({i \in 1..Len(s) : s[i] = v})

NoneMomentum == [none |-> TRUE, ups |-> 0, downs |-> 0, terms |-> 0]

NoneFip == [none |-> TRUE, score |-> Frac(0, 1)]

\* np.prod(1 + returns) - 1: np.prod hands over to Series.prod, which skips NaN
ProdOnePlusMinusOne(returns) ==
    [none |-> FALSE,
     ups |-> Count(returns, "up"),
     downs |-> Count(returns, "down"),
     terms |-> Len(returns) - Count(returns, "nan")]

\* a scorer that does not look at the length of the frame
calculate_generic_momentum_unchecked(sd) ==
    IF ~sd.has_close THEN NoneMomentum
    ELSE ProdOnePlusMinusOne(PySlice(pct_change(sd), 0 - MomentumWindow, 0 - SkipDays))

calculate_generic_momentum(sd) ==
    IF sd.bars < MomentumMinBars THEN NoneMomentum
    ELSE IF ~sd.has_close THEN NoneMomentum
    ELSE ProdOnePlusMinusOne(PySlice(pct_change(sd), 0 - MomentumWindow, 0 - SkipDays))

calculate_fip_score(sd) ==
    IF sd.bars < fip_lookback_days THEN NoneFip
    ELSE IF ~sd.has_close THEN NoneFip
    ELSE LET returns == PySlice(pct_change(sd), 0 - FipWindow, 0)
         IN  [none |-> FALSE,
              score |-> Frac(Count(returns, "up") - Count(returns, "down"), Len(returns))]

NoSeries == [bars |-> 0, has_close |-> TRUE, moves |-> <<>>]

NoFile == [exists |-> FALSE, columns |-> {}, rows |-> <<>>]

EmptyFrame == [columns |-> {}, rows |-> <<>>]

ScoreIdle == series = NoSeries /\ momentum = NoneMomentum /\ fip_score = NoneFip

NoAlert == [exists |-> FALSE, stocks_removed |-> 0]

NoOutput ==
    [screening_results |-> NoFile, previous_portfolio |-> NoFile, rebalance_alert |-> NoAlert]

FileIdle == output_dir = NoOutput /\ loaded = EmptyFrame /\ today = NoDate

(***************************************************************************)
(* screen_momentum_stocks.  What yf.download and the two scorers gave for  *)
(* one stock is an input: the download may raise (fetch_ok = FALSE), the   *)
(* history may be short (bars < 252), a scorer may return None (scored =   *)
(* FALSE), or both scores are numbers.                                     *)
(***************************************************************************)
StockList == <<"A", "B", "C", "D", "E", "F">>

Scored(m, f, p) ==
    [fetch_ok |-> TRUE, bars |-> MinBars, scored |-> TRUE,
     Momentum_12m |-> m, FIP_Score |-> f, Price |-> p, Volume |-> 100]

FetchFailed ==
    [fetch_ok |-> FALSE, bars |-> 0, scored |-> FALSE,
     Momentum_12m |-> 0, FIP_Score |-> 0, Price |-> 0, Volume |-> 0]

ShortHistory ==
    [fetch_ok |-> TRUE, bars |-> MinBars - 1, scored |-> FALSE,
     Momentum_12m |-> 0, FIP_Score |-> 0, Price |-> 10, Volume |-> 100]

ScorerFailed ==
    [fetch_ok |-> TRUE, bars |-> MinBars, scored |-> FALSE,
     Momentum_12m |-> 0, FIP_Score |-> 0, Price |-> 10, Volume |-> 100]

\* the body of the for loop appends a row for this stock
AppendsRow(r) == r.fetch_ok /\ ~(r.bars < MinBars) /\ r.scored

\* the for loop over stock_list building results
\* a loop that a fault of one stock ends with no results at all
RECURSIVE CollectResultsAborting(_, _, _, _, _)
CollectResultsAborting(stock_list, data, date, i, acc) ==
    IF i > Len(data) THEN acc
    ELSE IF AppendsRow(data[i])
         THEN CollectResultsAborting(stock_list, data, date, i + 1,
                  Append(acc, [Symbol |-> stock_list[i],
                               Momentum_12m |-> data[i].Momentum_12m,
                               FIP_Score |-> data[i].FIP_Score,
                               Price |-> data[i].Price,
                               Date |-> date,
                               Volume |-> data[i].Volume]))
         ELSE <<>>

\* the for loop over stock_list building results
RECURSIVE CollectResultsOf(_, _, _, _, _)
CollectResultsOf(stock_list, data, date, i, acc) ==
    IF i > Len(data) THEN acc
    ELSE IF AppendsRow(data[i])
         THEN CollectResultsOf(stock_list, data, date, i + 1,
                  Append(acc, [Symbol |-> stock_list[i],
                               Momentum_12m |-> data[i].Momentum_12m,
                               FIP_Score |-> data[i].FIP_Score,
                               Price |-> data[i].Price,
                               Date |-> date,
                               Volume |-> data[i].Volume]))
         ELSE CollectResultsOf(stock_list, data, date, i + 1, acc)

\* the loop over the stock list of the model
CollectResults(data, date, i, acc) == CollectResultsOf(StockList, data, date, i, acc)

\* ranks that go up with momentum instead of down
RankDescPctAscending(df, i) ==
    LET less == Cardinality({j \in 1..Len(df) : df[j].Momentum_12m < df[i].Momentum_12m})
        equal == Cardinality({j \in 1..Len(df) : df[j].Momentum_12m = df[i].Momentum_12m})
    IN  Frac(2 * less + equal + 1, 2 * Len(df))

\* ranks that break ties by row order instead of averaging
RankDescPctFirst(df, i) ==
    LET greater == Cardinality({j \in 1..Len(df) : df[j].Momentum_12m > df[i].Momentum_12m})
        before == Cardinality({j \in 1..i : df[j].Momentum_12m = df[i].Momentum_12m})
    IN  Frac(2 * (greater + before), 2 * Len(df))

\* Series.rank(ascending=False, pct=True), ties averaged
RankDescPct(df, i) ==
    LET greater == Cardinality({j \in 1..Len(df) : df[j].Momentum_12m > df[i].Momentum_12m})
        equal == Cardinality({j \in 1..Len(df) : df[j].Momentum_12m = df[i].Momentum_12m})
    IN  Frac(2 * greater + equal + 1, 2 * Len(df))

\* FIP ranks that go down as the FIP score goes up
RankAscPctDescending(df, i) ==
    LET greater == Cardinality({j \in 1..Len(df) : df[j].FIP_Score > df[i].FIP_Score})
        equal == Cardinality({j \in 1..Len(df) : df[j].FIP_Score = df[i].FIP_Score})
    IN  Frac(2 * greater + equal + 1, 2 * Len(df))

\* Series.rank(ascending=True, pct=True), ties averaged
RankAscPct(df, i) ==
    LET less == Cardinality({j \in 1..Len(df) : df[j].FIP_Score < df[i].FIP_Score})
        equal == Cardinality({j \in 1..Len(df) : df[j].FIP_Score = df[i].FIP_Score})
    IN  Frac(2 * less + equal + 1, 2 * Len(df))

WithMomentumRank(df) ==
    [i \in 1..Len(df) |-> df[i] @@ ("Momentum_Rank" :> RankDescPct(df, i))]

\* the row filter df['Momentum_Rank'] <= self.momentum_percentile
PassesGateAll(r) == TRUE

PassesGate(r) == FracLE(r.Momentum_Rank, momentum_percentile)

\* a gate that lets every row through when no row passes
GateFilterOrAll(df) == IF SelectSeq(df, PassesGate) = <<>> THEN df ELSE SelectSeq(df, PassesGate)

GateFilter(df) == SelectSeq(df, PassesGate)

WithFipRank(df) ==
    [i \in 1..Len(df) |-> df[i] @@ ("FIP_Rank" :> RankAscPct(df, i))]

\* the two weights exchanged
CombinedScoreSwapped(r) ==
    LET m == r.Momentum_Rank
        f == r.FIP_Rank
    IN  Frac(3 * (m.den - m.num) * f.den + 7 * (f.den - f.num) * m.den,
             10 * m.den * f.den)

\* 0.70 * (1 - Momentum_Rank) + 0.30 * (1 - FIP_Rank)
CombinedScore(r) ==
    LET m == r.Momentum_Rank
        f == r.FIP_Rank
    IN  Frac(7 * (m.den - m.num) * f.den + 3 * (f.den - f.num) * m.den,
             10 * m.den * f.den)

WithCombinedScore(df) ==
    [i \in 1..Len(df) |-> df[i] @@ ("Combined_Score" :> CombinedScore(df[i]))]

\* DataFrame.nlargest(n, 'Combined_Score'): the n largest, largest first, the
\* earlier row first among equal scores (keep='first')
RECURSIVE NLargestLoop(_, _, _, _)
NLargestLoop(df, n, taken, acc) ==
    LET rest == (1..Len(df)) \ taken
    IN  IF n = 0 \/ rest = {} THEN acc
        ELSE LET best == CHOOSE i \in rest :
                            \A j \in rest :
                               \/ FracLT(df[j].Combined_Score, df[i].Combined_Score)
                               \/ FracEq(df[j].Combined_Score, df[i].Combined_Score) /\ i <= j
             IN  NLargestLoop(df, n - 1, taken \cup {best}, Append(acc, df[best]))

\* the first n rows, whatever their scores
nlargest_first_rows(df, n) == SubSeq(df, 1, IF n < Len(df) THEN n ELSE Len(df))

nlargest(df, n) == NLargestLoop(df, n, {}, <<>>)

\* DataFrame.sort_values('Combined_Score', ascending=False): rows with equal
\* scores keep their order
RECURSIVE InsertDesc(_, _)
InsertDesc(sorted, r) ==
    IF sorted = <<>> THEN <<r>>
    ELSE IF FracLT(Head(sorted).Combined_Score, r.Combined_Score)
         THEN <<r>> \o sorted
         ELSE <<Head(sorted)>> \o InsertDesc(Tail(sorted), r)

RECURSIVE SortValuesDesc(_, _)
SortValuesDesc(df, acc) ==
    IF df = <<>> THEN acc ELSE SortValuesDesc(Tail(df), InsertDesc(acc, Head(df)))

screen_stock_list(stock_list, data, date, size) ==
    LET results == CollectResultsOf(stock_list, data, date, 1, <<>>)
        df == WithMomentumRank(results)
        top_momentum == GateFilter(df)
        scored == WithCombinedScore(WithFipRank(top_momentum))
    IN  IF results = <<>> THEN <<>>
        ELSE IF Len(top_momentum) = 0 THEN <<>>
        ELSE SortValuesDesc(nlargest(scored, size), <<>>)

\* screen_momentum_stocks(stock_list, date) for the stock list of the model
screen_momentum_stocks(data, date, size) == screen_stock_list(StockList, data, date, size)

(***************************************************************************)
(* BacktestEngine.run_backtest, one action per pass of its for loop.       *)
(***************************************************************************)
InitialCapital == 1000000

\* position_size = initial_capital / len(portfolio)
position_size_by_config(initial_capital, pf, size) == Frac(initial_capital, size)

position_size(initial_capital, pf, size) == Frac(initial_capital, Len(pf))

\* the Trade appended for one open position closed on rebalance_date
\* a trade closed one unit of price above the entry
CloseTradeRepriced(position, rebalance_date) ==
    [Symbol |-> position.Symbol,
     Entry_Date |-> position.entry_date,
     Exit_Date |-> rebalance_date,
     Entry_Price |-> position.entry_price,
     Exit_Price |-> position.current_price + 1,
     Return_Pct |-> Frac((position.current_price + 1 - position.entry_price) * 100,
                         position.entry_price),
     Holding_Days |-> DaysBetween(rebalance_date, position.entry_date)]

CloseTrade(position, rebalance_date) ==
    [Symbol |-> position.Symbol,
     Entry_Date |-> position.entry_date,
     Exit_Date |-> rebalance_date,
     Entry_Price |-> position.entry_price,
     Exit_Price |-> position.current_price,
     Return_Pct |-> Frac((position.current_price - position.entry_price) * 100,
                         position.entry_price),
     Holding_Days |-> DaysBetween(rebalance_date, position.entry_date)]

\* the trades appended by the loop over positions.items()
ClosePositionsButLast(pos, rebalance_date) ==
    [i \in 1..(Len(pos) - 1) |-> CloseTrade(pos[i], rebalance_date)]

ClosePositions(pos, rebalance_date) ==
    [i \in 1..Len(pos) |-> CloseTrade(pos[i], rebalance_date)]

\* positions[symbol] = value on an insertion-ordered dict
DictSet(pos, value) ==
    IF \E i \in 1..Len(pos) : pos[i].Symbol = value.Symbol
    THEN [i \in 1..Len(pos) |-> IF pos[i].Symbol = value.Symbol THEN value ELSE pos[i]]
    ELSE Append(pos, value)

\* portfolio.head(n)
HeadRows(pf, n) == SubSeq(pf, 1, IF n < Len(pf) THEN n ELSE Len(pf))

\* the loop opening one position per row of portfolio.head(portfolio_size)
RECURSIVE OpenPositions(_, _, _, _)
OpenPositions(rows, rebalance_date, psize, pos) ==
    IF rows = <<>> THEN pos
    ELSE OpenPositions(Tail(rows), rebalance_date, psize,
             DictSet(pos, [Symbol |-> Head(rows).Symbol,
                           entry_price |-> Head(rows).Price,
                           current_price |-> Head(rows).Price,
                           entry_date |-> rebalance_date,
                           shares |-> Frac(psize.num, psize.den * Head(rows).Price)]))

FracAdd(a, b) ==
    IF a.num = 0 THEN b
    ELSE IF b.num = 0 THEN a
    ELSE Frac(a.num * b.den + b.num * a.den, a.den * b.den)

Sign(n) == IF n > 0 THEN 1 ELSE IF n < 0 THEN 0 - 1 ELSE 0

RECURSIVE SumReturns(_)
SumReturns(tr) ==
    IF tr = <<>> THEN Frac(0, 1) ELSE FracAdd(Head(tr).Return_Pct, SumReturns(Tail(tr)))

RECURSIVE SumHoldingDays(_)
SumHoldingDays(tr) ==
    IF tr = <<>> THEN 0 ELSE Head(tr).Holding_Days + SumHoldingDays(Tail(tr))

\* trades_df['Return_Pct'].mean()
MeanReturn(tr) == Frac(SumReturns(tr).num, SumReturns(tr).den * Len(tr))

\* trades_df['Return_Pct'].min()
MinReturn(tr) ==
    tr[CHOOSE i \in 1..Len(tr) :
          \A j \in 1..Len(tr) : FracLE(tr[i].Return_Pct, tr[j].Return_Pct)].Return_Pct

\* trades_df['Return_Pct'].std(), the sample deviation: NaN for one trade,
\* 0.0 when all returns are equal, a positive number otherwise
StdReturns(tr) ==
    IF Len(tr) < 2 THEN "nan"
    ELSE IF \A i, j \in 1..Len(tr) : FracEq(tr[i].Return_Pct, tr[j].Return_Pct) THEN "zero"
    ELSE "positive"

\* summary['Avg_Return_Pct'] * (252 / summary['Avg_Holding_Days']) as a float:
\* NaN, an infinity or a number, with its sign
AnnualReturn(tr) ==
    LET avg == MeanReturn(tr)
        s == Sign(avg.num) * Sign(avg.den)
    IN  IF SumHoldingDays(tr) = 0
        THEN (IF s = 0 THEN [kind |-> "nan", sign |-> 0] ELSE [kind |-> "inf", sign |-> s])
        ELSE [kind |-> "num", sign |-> s]

\* annual_return / (summary['Std_Dev_Returns'] + 1e-6) * np.sqrt(252)
SharpeRatio(tr) ==
    IF StdReturns(tr) = "nan" THEN [kind |-> "nan", sign |-> 0] ELSE AnnualReturn(tr)

SummaryColumns ==
    {"Total_Trades", "Winning_Trades", "Win_Rate_Pct", "Avg_Return_Pct", "Max_Drawdown_Pct",
     "Avg_Holding_Days", "Std_Dev_Returns", "Sharpe_Ratio"}

\* pd.DataFrame(): no columns, no rows; divisions counts the / evaluated
NoSummary == [columns |-> {}, rows |-> <<>>, divisions |-> 0]

\* pd.DataFrame([summary]) of the statistics of the trades
SummaryFrame(tr) ==
    LET winning == Cardinality({i \in 1..Len(tr) : tr[i].Return_Pct.num > 0})
    IN  [columns |-> SummaryColumns,
         rows |-> << [Total_Trades |-> Len(tr),
                      Winning_Trades |-> winning,
                      Win_Rate_Pct |-> Frac(winning * 100, Len(tr)),
                      Avg_Return_Pct |-> MeanReturn(tr),
                      Max_Drawdown_Pct |-> MinReturn(tr),
                      Avg_Holding_Days |-> Frac(SumHoldingDays(tr), Len(tr)),
                      Std_Dev_Returns |-> StdReturns(tr),
                      Sharpe_Ratio |-> SharpeRatio(tr)] >>,
         divisions |-> 3]

\* a summary that shows zero statistics for an empty trade list
generate_backtest_summary_zeros(tr) ==
    IF tr = <<>>
    THEN [columns |-> SummaryColumns,
          rows |-> << [Total_Trades |-> 0, Winning_Trades |-> 0, Win_Rate_Pct |-> Frac(0, 0),
                       Avg_Return_Pct |-> Frac(0, 0), Max_Drawdown_Pct |-> Frac(0, 0),
                       Avg_Holding_Days |-> Frac(0, 0), Std_Dev_Returns |-> "nan",
                       Sharpe_Ratio |-> [kind |-> "nan", sign |-> 0]] >>,
          divisions |-> 3]
    ELSE SummaryFrame(tr)

\* _generate_backtest_summary
generate_backtest_summary(tr) ==
    IF tr = <<>> THEN [columns |-> {}, rows |-> <<>>, divisions |-> 0]
    ELSE SummaryFrame(tr)

\* the stocks the backtests are run on, and what the market data may be at a date
BtStockList == <<"A", "B", "C">>

BtUniverses ==
    { <<Scored(3, 1, 10), Scored(2, 1, 20), Scored(1, 1, 5)>>,
      <<Scored(3, 1, 12), Scored(1, 1, 20), Scored(2, 2, 8)>>,
      <<Scored(1, 1, 10), Scored(1, 2, 25), Scored(1, 1, 5)>>,
      <<Scored(2, 1, 10), ShortHistory, FetchFailed>>,
      <<FetchFailed, FetchFailed, FetchFailed>> }

BtStarts == {D(2023, 2, 27), D(2023, 2, 28), D(2023, 3, 1), D(2023, 5, 30), D(2024, 2, 28)}

BtRanges ==
    {<<s, AddDays(s, n)>> : s \in BtStarts, n \in 0..MaxSpanDays}
      \cup {<<D(2023, 5, 31), D(2023, 8, 1)>>, <<D(1900, 2, 28), D(1900, 2, 28)>>}

\* BacktestEngine.__init__ on a fresh strategy
Init ==
    /\ pc = "idle"
    /\ \E r \in BtRanges : start_date = r[1] /\ end_date = r[2]
    /\ rebalance_dates = <<>>
    /\ raised = FALSE
    /\ idx = 1
    /\ portfolio_size \in PortfolioSizes
    /\ stock_data = <<>>
    /\ portfolio = <<>>
    /\ positions = <<>>
    /\ trades = <<>>
    /\ portfolio_value = 0
    /\ runs = 0
    /\ summary = NoSummary
    /\ selected = <<>>
    /\ ScoreIdle
    /\ FileIdle

\* run_backtest up to the for loop: the calendar, portfolio_value, positions
RunBacktest ==
    /\ pc \in {"idle", "done"}
    /\ runs < MaxRuns
    /\ LET cal == get_rebalance_dates(start_date, end_date)
       IN  IF cal.raised
           THEN /\ pc' = "raised"
                /\ raised' = TRUE
                /\ UNCHANGED <<rebalance_dates, idx, positions, portfolio_value, selected>>
           ELSE /\ pc' = "loop"
                /\ raised' = FALSE
                /\ rebalance_dates' = cal.dates
                /\ idx' = 1
                /\ positions' = <<>>
                /\ portfolio_value' = InitialCapital
                /\ selected' = <<>>
    /\ runs' = runs + 1
    /\ UNCHANGED <<start_date, end_date, portfolio_size, stock_data, portfolio,
                   trades, summary>>
    /\ UNCHANGED <<scoreVars, fileVars>>

\* a pass whose portfolio is empty: continue
SkipDateClears ==
    /\ positions' = <<>>
    /\ UNCHANGED <<trades, portfolio_value>>

SkipDate == UNCHANGED <<positions, trades, portfolio_value>>

\* a pass that keeps only the trades it closes itself
RebalanceReplacingTrades(pf, rebalance_date) ==
    /\ trades' = ClosePositions(positions, rebalance_date)
    /\ positions' = OpenPositions(HeadRows(pf, portfolio_size), rebalance_date,
                                  position_size(InitialCapital, pf, portfolio_size), <<>>)
    /\ UNCHANGED portfolio_value

\* a pass whose portfolio is not empty: close all, then open the new positions
Rebalance(pf, rebalance_date) ==
    /\ trades' = trades \o ClosePositions(positions, rebalance_date)
    /\ positions' = OpenPositions(HeadRows(pf, portfolio_size), rebalance_date,
                                  position_size(InitialCapital, pf, portfolio_size), <<>>)
    /\ UNCHANGED portfolio_value

\* one pass of the for loop over rebalance_dates
RebalanceStep ==
    /\ pc = "loop"
    /\ idx <= Len(rebalance_dates)
    /\ \E data \in BtUniverses :
          LET pf == screen_momentum_stocks(data, rebalance_dates[idx], portfolio_size)
          IN  /\ stock_data' = data
              /\ portfolio' = pf
              /\ IF pf = <<>> THEN SkipDate ELSE Rebalance(pf, rebalance_dates[idx])
    /\ idx' = idx + 1
    /\ selected' = Append(selected, [date |-> rebalance_dates[idx],
                                     skipped |-> portfolio' = <<>>,
                                     symbols |-> {positions'[k].Symbol : k \in 1..Len(positions')}])
    /\ UNCHANGED <<pc, start_date, end_date, rebalance_dates, raised, portfolio_size,
                   runs, summary>>
    /\ UNCHANGED <<scoreVars, fileVars>>

\* the loop is over: return self._generate_backtest_summary()
Finish ==
    /\ pc = "loop"
    /\ idx > Len(rebalance_dates)
    /\ summary' = generate_backtest_summary(trades)
    /\ pc' = "done"
    /\ UNCHANGED <<start_date, end_date, rebalance_dates, raised, idx, portfolio_size,
                   stock_data, portfolio, positions, trades, portfolio_value, runs, selected>>
    /\ UNCHANGED <<scoreVars, fileVars>>

Next == RunBacktest \/ RebalanceStep \/ Finish

Spec == Init /\ [][Next]_vars

(***************************************************************************)
(* get_rebalance_dates on its own, over whole years and parts of them.     *)
(***************************************************************************)
CalYears == {1900, 2000, 2023, 2024}

CalDates ==
    {D(y, m, d) : y \in CalYears, m \in 1..12, d \in {1, 15, 28}}
      \cup {D(y, m, DaysInMonth(y, m)) : y \in CalYears, m \in 1..12}

CalRanges ==
    {r \in CalDates \X CalDates :
        r[1].year = r[2].year \/ (r[1].year = 2023 /\ r[2].year = 2024)}

CalInit ==
    /\ pc = "cal"
    /\ \E r \in CalRanges : start_date = r[1] /\ end_date = r[2]
    /\ rebalance_dates = <<>>
    /\ raised = FALSE
    /\ idx = 1
    /\ portfolio_size = DefaultPortfolioSize
    /\ stock_data = <<>>
    /\ portfolio = <<>>
    /\ positions = <<>>
    /\ trades = <<>>
    /\ portfolio_value = 0
    /\ runs = 0
    /\ summary = NoSummary
    /\ selected = <<>>
    /\ ScoreIdle
    /\ FileIdle

GetRebalanceDates ==
    /\ pc = "cal"
    /\ LET cal == get_rebalance_dates(start_date, end_date)
       IN  /\ raised' = cal.raised
           /\ rebalance_dates' = cal.dates
    /\ pc' = "cal_done"
    /\ UNCHANGED <<start_date, end_date, idx, portfolio_size, stock_data, portfolio,
                   positions, trades, portfolio_value, runs, summary, selected>>
    /\ UNCHANGED <<scoreVars, fileVars>>

CalNext == GetRebalanceDates

SpecCal == CalInit /\ [][CalNext]_vars

(***************************************************************************)
(* screen_momentum_stocks on its own, over every small universe.           *)
(***************************************************************************)
StockOutcomes ==
    {FetchFailed, ShortHistory, ScorerFailed}
      \cup {Scored(m, f, 10) : m \in 1..MaxMom, f \in 1..MaxFip}

ScreenDate == D(2024, 2, 29)

ScreenInit ==
    /\ pc = "screen"
    /\ start_date = ScreenDate
    /\ end_date = ScreenDate
    /\ rebalance_dates = <<>>
    /\ raised = FALSE
    /\ idx = 1
    /\ portfolio_size \in PortfolioSizes
    /\ \E n \in 0..MaxStocks : stock_data \in [1..n -> StockOutcomes]
    /\ portfolio = <<>>
    /\ positions = <<>>
    /\ trades = <<>>
    /\ portfolio_value = 0
    /\ runs = 0
    /\ summary = NoSummary
    /\ selected = <<>>
    /\ ScoreIdle
    /\ FileIdle

ScreenMomentumStocks ==
    /\ pc = "screen"
    /\ portfolio' = screen_momentum_stocks(stock_data, ScreenDate, portfolio_size)
    /\ pc' = "screened"
    /\ UNCHANGED <<start_date, end_date, rebalance_dates, raised, idx, portfolio_size,
                   stock_data, positions, trades, portfolio_value, runs, summary,
                   selected>>
    /\ UNCHANGED <<scoreVars, fileVars>>

ScreenNext == ScreenMomentumStocks

SpecScreen == ScreenInit /\ [][ScreenNext]_vars

(***************************************************************************)
(* Properties of the rebalance calendar (SpecCal).                         *)
(***************************************************************************)
Returned == pc = "cal_done" /\ ~raised

DateSet == {rebalance_dates[i] : i \in 1..Len(rebalance_dates)}

\* the last calendar days of Feb, May, Aug and Nov of the years start..end
QuarterEnds ==
    {D(y, m, DaysInMonth(y, m)) : y \in start_date.year..end_date.year, m \in {2, 5, 8, 11}}

InRange(dt) == DateLE(start_date, dt) /\ DateLE(dt, end_date)

\* the range start_date..end_date holds every day of year y
CoversYear(y) == DateLE(start_date, D(y, 1, 1)) /\ DateLE(D(y, 12, 31), end_date)

\* the range start_date..end_date holds a day of February of year y
HoldsFebruaryDay(y) ==
    /\ DateLE(start_date, end_date)
    /\ DateLE(start_date, D(y, 2, DaysInMonth(y, 2)))
    /\ DateLE(D(y, 2, 1), end_date)

\* C1: the sequence get_rebalance_dates returns is strictly increasing and holds
\* at most one date per quarter-end month.
C1_StrictlyIncreasing ==
    Returned =>
        \A i, j \in 1..Len(rebalance_dates) :
            i < j => /\ DateLT(rebalance_dates[i], rebalance_dates[j])
                     /\ <<rebalance_dates[i].year, rebalance_dates[i].month>>
                          # <<rebalance_dates[j].year, rebalance_dates[j].month>>

\* C7: the set of dates get_rebalance_dates returns is exactly the set of last
\* days of Feb, May, Aug and Nov lying in [start, end].
C7_ExactlyQuarterEndsInRange ==
    Returned => DateSet = {q \in QuarterEnds : InRange(q)}

\* C8: with February of a century year not divisible by 400 in the range the call
\* completes and produces Feb 28; with February of a year divisible by 400 in the
\* range it produces Feb 29.
C8_CenturyLeapRule ==
    pc = "cal_done" =>
        \A y \in start_date.year..end_date.year :
            HoldsFebruaryDay(y) =>
                /\ (y % 100 = 0 /\ y % 400 # 0) => (~raised /\ D(y, 2, 28) \in DateSet)
                /\ (y % 400 = 0) => (~raised /\ D(y, 2, 29) \in DateSet)

\* C9: a range covering all of 2024 yields Feb 29 2024; a range covering all of
\* 2023 yields Feb 28 2023 and not Feb 29; every fully covered year yields its
\* May 31, Aug 31 and Nov 30.
C9_KnownYears ==
    pc = "cal_done" =>
        /\ CoversYear(2024) => D(2024, 2, 29) \in DateSet
        /\ CoversYear(2023) => (D(2023, 2, 28) \in DateSet /\ D(2023, 2, 29) \notin DateSet)
        /\ \A y \in start_date.year..end_date.year :
              CoversYear(y) => {D(y, 5, 31), D(y, 8, 31), D(y, 11, 30)} \subseteq DateSet

(***************************************************************************)
(* Properties of run_backtest (Spec).                                      *)
(***************************************************************************)
\* this step is a pass of the for loop
PassTaken == pc = "loop" /\ idx' = idx + 1

SymbolsOf(rows) == {rows[k].Symbol : k \in 1..Len(rows)}

\* C2: a pass that is not skipped closes every open position into exactly one
\* Trade with exit_date = d and holding_days = d - entry_date, re-selected or
\* not, and every position held afterwards is a fresh one dated d.
C2_ClosesAllThenOpens ==
    [][(PassTaken /\ portfolio' # <<>>) =>
          LET d == rebalance_dates[idx]
              new == SubSeq(trades', Len(trades) + 1, Len(trades'))
          IN  /\ SubSeq(trades', 1, Len(trades)) = trades
              /\ Len(new) = Len(positions)
              /\ \A i \in 1..Len(positions) :
                    \E k \in 1..Len(new) :
                        /\ new[k].Symbol = positions[i].Symbol
                        /\ new[k].Entry_Date = positions[i].entry_date
                        /\ new[k].Exit_Date = d
                        /\ new[k].Holding_Days = Ordinal(d) - Ordinal(positions[i].entry_date)
                        /\ \A k2 \in 1..Len(new) : new[k2].Symbol = new[k].Symbol => k2 = k
              /\ SymbolsOf(positions') = SymbolsOf(portfolio')
              /\ \A j \in 1..Len(positions') : positions'[j].entry_date = d
    ]_vars

\* a re-selected symbol and a dropped one were both closed at a later date
C2_Witness ==
    /\ pc = "loop"
    /\ \E t1, t2 \in 1..Len(trades) :
          /\ trades[t1].Symbol \in SymbolsOf(positions)
          /\ trades[t2].Symbol \notin SymbolsOf(positions)
          /\ trades[t1].Exit_Date = trades[t2].Exit_Date
          /\ trades[t1].Holding_Days > 0
          /\ \A j \in 1..Len(positions) : positions[j].entry_date = trades[t1].Exit_Date

\* C3: once the last date is processed the positions opened at the last
\* non-skipped date are not closed and have produced no Trade; with 2 rebalance
\* dates, A and B selected at the first and A and C at the second, the log holds
\* exactly the 2 Trades of A and B, both exiting at date 2.
C3_TailNotClosed ==
    (pc = "done" /\ runs = 1) =>
        /\ \A i \in 1..Len(positions) : \A k \in 1..Len(trades) :
              trades[k].Entry_Date # positions[i].entry_date
        /\ ( /\ Len(selected) = 2
             /\ ~selected[1].skipped /\ selected[1].symbols = {"A", "B"}
             /\ ~selected[2].skipped /\ selected[2].symbols = {"A", "C"} )
           => /\ Len(trades) = 2
              /\ SymbolsOf(trades) = {"A", "B"}
              /\ \A k \in 1..Len(trades) : trades[k].Exit_Date = selected[2].date

\* C4: a pass whose screening gives an empty Portfolio leaves the positions, the
\* trade list and portfolio_value as they were.
C4_SkipChangesNothing ==
    [][(PassTaken /\ portfolio' = <<>>) =>
          /\ positions' = positions
          /\ trades' = trades
          /\ portfolio_value' = portfolio_value
    ]_vars

\* a date was skipped while positions were open
C4_Witness ==
    /\ pc = "loop"
    /\ selected # <<>>
    /\ selected[Len(selected)].skipped
    /\ positions # <<>>

\* the positions after a pass are one per candidate, at its price, dated d, each
\* with shares = (capital / divisor) / entry_price
OpensPerCandidate(divisor) ==
    /\ Len(positions') = Len(portfolio')
    /\ Len(positions') <= portfolio_size
    /\ \A k \in 1..Len(portfolio') :
          /\ positions'[k].Symbol = portfolio'[k].Symbol
          /\ positions'[k].entry_price = portfolio'[k].Price
          /\ positions'[k].entry_date = rebalance_dates[idx]
          /\ FracEq(positions'[k].shares,
                    Frac(portfolio_value, divisor * positions'[k].entry_price))

\* C5 as stated: the capital per position is portfolio_value / portfolio_size,
\* also when the Portfolio has fewer candidates than portfolio_size.
C5_SharesByPortfolioSize ==
    [][(PassTaken /\ portfolio' # <<>>) => OpensPerCandidate(portfolio_size)]_vars

\* C5 amended: the capital per position is the starting capital divided by the
\* number of candidates in the Portfolio.
C5_SharesByPortfolioLength ==
    [][(PassTaken /\ portfolio' # <<>>) => OpensPerCandidate(Len(portfolio'))]_vars

\* positions were opened from a Portfolio shorter than portfolio_size
C5_Witness ==
    /\ pc = "loop"
    /\ selected # <<>>
    /\ ~selected[Len(selected)].skipped
    /\ Len(portfolio) > 1
    /\ Len(portfolio) < portfolio_size
    /\ Len(positions) = Len(portfolio)

\* C6: every run, a second one on the same engine included, starts from empty
\* positions, an empty trade list and portfolio_value = initial_capital.
C6_RunStartsClean ==
    (pc = "loop" /\ idx = 1) =>
        /\ positions = <<>>
        /\ trades = <<>>
        /\ portfolio_value = InitialCapital

(***************************************************************************)
(* Properties of screen_momentum_stocks (SpecScreen).                      *)
(***************************************************************************)
\* the rows the for loop collected, ranked over the whole valid universe
RankedUniverse == WithMomentumRank(CollectResults(stock_data, ScreenDate, 1, <<>>))

\* C10: the returned Portfolio has at most portfolio_size candidates and each has
\* Momentum_Rank <= momentum_percentile (0.90).
C10_SizeAndGate ==
    pc = "screened" =>
        /\ Len(portfolio) <= portfolio_size
        /\ \A k \in 1..Len(portfolio) :
              10 * portfolio[k].Momentum_Rank.num <= 9 * portfolio[k].Momentum_Rank.den

\* the gate shut a scored stock out and the size cap cut a gated one
C10_Witness ==
    /\ pc = "screened"
    /\ Len(portfolio) = portfolio_size
    /\ \E i \in 1..Len(RankedUniverse) :
          10 * RankedUniverse[i].Momentum_Rank.num > 9 * RankedUniverse[i].Momentum_Rank.den
    /\ \E i \in 1..Len(RankedUniverse) :
          /\ 10 * RankedUniverse[i].Momentum_Rank.num <= 9 * RankedUniverse[i].Momentum_Rank.den
          /\ RankedUniverse[i].Symbol \notin SymbolsOf(portfolio)

\* C11: every returned candidate has Combined_Score = 0.70 * (1 - Momentum_Rank)
\* + 0.30 * (1 - FIP_Rank), a value in [0, 1] that is 1 only when both ranks are 0.
C11_CombinedScoreFormula ==
    pc = "screened" =>
        \A k \in 1..Len(portfolio) :
            LET m == portfolio[k].Momentum_Rank
                f == portfolio[k].FIP_Rank
                c == portfolio[k].Combined_Score
            IN  /\ c.den > 0
                /\ c.num * (10 * m.den * f.den)
                     = (7 * (m.den - m.num) * f.den + 3 * (f.den - f.num) * m.den) * c.den
                /\ 0 <= c.num /\ c.num <= c.den
                /\ (c.num = c.den) => (m.num = 0 /\ f.num = 0)

\* a Portfolio whose candidates differ in both ranks
C11_Witness ==
    /\ pc = "screened"
    /\ \E k1, k2 \in 1..Len(portfolio) :
          /\ ~FracEq(portfolio[k1].Momentum_Rank, portfolio[k2].Momentum_Rank)
          /\ ~FracEq(portfolio[k1].FIP_Rank, portfolio[k2].FIP_Rank)

\* row i of the ranked universe has strictly the highest momentum
StrictlyBest(i) ==
    \A j \in 1..Len(RankedUniverse) :
        j # i => RankedUniverse[j].Momentum_12m < RankedUniverse[i].Momentum_12m

\* C12 as stated: the instrument with strictly the highest momentum has
\* momentum rank 0.
C12_BestHasRankZero ==
    pc = "screened" =>
        \A i \in 1..Len(RankedUniverse) :
            StrictlyBest(i) => RankedUniverse[i].Momentum_Rank.num = 0

\* C12 amended: the instrument with strictly the highest momentum has the
\* smallest momentum rank, which is 1/n in a valid universe of n instruments.
C12_BestHasRankOneOverN ==
    pc = "screened" =>
        \A i \in 1..Len(RankedUniverse) :
            StrictlyBest(i) =>
                /\ FracEq(RankedUniverse[i].Momentum_Rank, Frac(1, Len(RankedUniverse)))
                /\ \A j \in 1..Len(RankedUniverse) :
                      j # i => FracLT(RankedUniverse[i].Momentum_Rank,
                                      RankedUniverse[j].Momentum_Rank)

\* a valid universe of three with one instrument strictly ahead
C12_Witness ==
    /\ pc = "screened"
    /\ Len(RankedUniverse) = 3
    /\ \E i \in 1..Len(RankedUniverse) : StrictlyBest(i)

\* C13: every Momentum_Rank lies in [0, 1]; higher or equal momentum never has
\* the larger rank; equal momentum has equal rank.
C13_RankMonotone ==
    pc = "screened" =>
        \A a, b \in 1..Len(RankedUniverse) :
            LET ra == RankedUniverse[a].Momentum_Rank
                rb == RankedUniverse[b].Momentum_Rank
            IN  /\ 0 <= ra.num /\ ra.num <= ra.den
                /\ RankedUniverse[a].Momentum_12m >= RankedUniverse[b].Momentum_12m
                     => FracLE(ra, rb)
                /\ RankedUniverse[a].Momentum_12m = RankedUniverse[b].Momentum_12m
                     => FracEq(ra, rb)

\* a valid universe holding a tie and a strictly lower momentum
C13_Witness ==
    /\ pc = "screened"
    /\ \E a, b, c \in 1..Len(RankedUniverse) :
          /\ a # b
          /\ RankedUniverse[a].Momentum_12m = RankedUniverse[b].Momentum_12m
          /\ RankedUniverse[c].Momentum_12m < RankedUniverse[a].Momentum_12m


(***************************************************************************)
(* The two scorers on their own, over frames around the 252-bar minimum.   *)
(***************************************************************************)
Words == UNION {[1..n -> Moves] : n \in 1..MaxWord}

BarCounts == {0, 1} \cup ((MinBars - BarSlack)..(MinBars + BarSlack))

\* the frame of n bars whose moves repeat the word w
SeriesOf(n, close, w) ==
    [bars |-> n, has_close |-> close,
     moves |-> [i \in 1..(IF n = 0 THEN 0 ELSE n - 1) |-> w[((i - 1) % Len(w)) + 1]]]

\* what the loop body of screen_momentum_stocks holds for a downloaded frame
Downloaded(sd, m, f) ==
    [fetch_ok |-> TRUE, bars |-> sd.bars, scored |-> ~m.none /\ ~f.none,
     Momentum_12m |-> m, FIP_Score |-> f, Price |-> 10, Volume |-> 100]

ScoreInit ==
    /\ pc = "score"
    /\ \E n \in BarCounts, close \in BOOLEAN, w \in Words : series = SeriesOf(n, close, w)
    /\ momentum = NoneMomentum
    /\ fip_score = NoneFip
    /\ FileIdle
    /\ start_date = NoDate
    /\ end_date = NoDate
    /\ rebalance_dates = <<>>
    /\ raised = FALSE
    /\ idx = 0
    /\ portfolio_size = DefaultPortfolioSize
    /\ stock_data = <<>>
    /\ portfolio = <<>>
    /\ positions = <<>>
    /\ trades = <<>>
    /\ portfolio_value = InitialCapital
    /\ runs = 0
    /\ summary = NoSummary
    /\ selected = <<>>

\* the two scorer calls of the loop body, and the rows the loop then holds
ScoreStock ==
    /\ pc = "score"
    /\ momentum' = calculate_generic_momentum(series)
    /\ fip_score' = calculate_fip_score(series)
    /\ stock_data' = <<Downloaded(series, momentum', fip_score')>>
    /\ pc' = "scored"
    /\ UNCHANGED <<start_date, end_date, rebalance_dates, raised, idx, portfolio_size,
                   portfolio, positions, trades, portfolio_value, runs, summary,
                   selected, series>>
    /\ UNCHANGED fileVars

ScoreNext == ScoreStock

SpecScore == ScoreInit /\ [][ScoreNext]_vars

AllMoves(sd, v) == \A i \in 1..Len(sd.moves) : sd.moves[i] = v

\* C14: a frame of fewer than 252 bars makes both scorers return None, and
\* the loop of screen_momentum_stocks appends no row for it
C14_ShortSeriesExcluded ==
    (pc = "scored" /\ series.bars < 252) =>
        /\ momentum.none
        /\ fip_score.none
        /\ ~AppendsRow(stock_data[1])
        /\ CollectResults(stock_data, ScreenDate, 1, <<>>) = <<>>

C14_Witness == pc = "scored" /\ series.bars = 251 /\ series.has_close /\ momentum.none


\* C15: the momentum of an accepted frame multiplies exactly 231 daily
\* returns, so that a frame whose every return is +1% scores 1.01^231 - 1
C15_ProductOf231Returns ==
    (pc = "scored" /\ ~momentum.none) =>
        /\ momentum.terms = 231
        /\ AllMoves(series, "up") => (momentum.ups = 231 /\ momentum.downs = 0)

\* the returns of the trailing window of at most 252 daily returns
TrailingReturns(sd) ==
    IF Len(sd.moves) <= 252 THEN sd.moves
    ELSE SubSeq(sd.moves, Len(sd.moves) - 251, Len(sd.moves))

\* C16: the FIP score of an accepted frame is the share of positive minus
\* the share of negative returns among the returns of the trailing window,
\* and is exactly 1 when every return is positive
C16_FipOverWindowReturns ==
    (pc = "scored" /\ ~fip_score.none) =>
        LET window == TrailingReturns(series)
        IN  /\ FracEq(fip_score.score,
                      Frac(Count(window, "up") - Count(window, "down"), Len(window)))
            /\ AllMoves(series, "up") => FracEq(fip_score.score, Frac(1, 1))


\* the sequence s without its i-th element
RemoveAt(s, i) == SubSeq(s, 1, i - 1) \o SubSeq(s, i + 1, Len(s))

Faulty(r) == r = FetchFailed \/ r = ShortHistory \/ r = ScorerFailed

\* C17: a stock whose download fails, whose history is short or whose scorer
\* fails is left out and nothing else changes: the portfolio returned is the
\* one screening the stock list without that stock returns
C17_FaultExcludesOnlyThatStock ==
    pc = "screened" =>
        \A i \in 1..Len(stock_data) :
            Faulty(stock_data[i]) =>
                portfolio = screen_stock_list(RemoveAt(StockList, i), RemoveAt(stock_data, i),
                                              ScreenDate, portfolio_size)

C17_Witness ==
    /\ pc = "screened"
    /\ Len(stock_data) = 3
    /\ stock_data[1] = FetchFailed
    /\ portfolio # <<>>
    /\ portfolio[1].Symbol = "C"


\* C18: with no trades the summary is the empty frame, without any
\* statistics column, and the call evaluated no division
C18_EmptyTradesGiveEmptyFrame ==
    (pc = "done" /\ trades = <<>>) =>
        /\ summary.columns = {}
        /\ summary.rows = <<>>
        /\ summary.divisions = 0

C18_Witness == pc = "done" /\ trades = <<>> /\ runs = 1 /\ rebalance_dates # <<>>

ZeroVariance(tr) == \A i, j \in 1..Len(tr) : FracEq(tr[i].Return_Pct, tr[j].Return_Pct)

\* C19: with trades whose returns do not vary (one trade, or all returns
\* equal) the Sharpe ratio of the summary is the undefined value, never a number
C19_SharpeUndefinedOnZeroVariance ==
    (pc = "done" /\ trades # <<>> /\ ZeroVariance(trades)) =>
        /\ Len(summary.rows) = 1
        /\ summary.rows[1].Sharpe_Ratio.kind = "nan"


(***************************************************************************)
(* The two scripts: run_daily_screening writes the screened portfolio to   *)
(* output/screening_results.csv, execute_quarterly_rebalance reads it back *)
(* and copies it to output/previous_portfolio.csv.  A number in a file is  *)
(* its decimal text, kept as the count of ten-thousandths it spells.       *)
(***************************************************************************)
output_columns ==
    <<"Symbol", "Price", "Momentum_12m", "Momentum_Strength", "FIP_Score",
      "Momentum_Quality", "Combined_Score", "Entry_Signal", "Stop_Loss", "Target_Price",
      "Max_Holding_Days", "Sector", "Volume">>

TextColumns == {"Symbol", "Momentum_Strength", "Momentum_Quality", "Entry_Signal", "Sector"}

\* columns the model keeps as integers
IntColumns ==
    {"Price", "Momentum_12m", "FIP_Score", "Volume", "Max_Holding_Days", "Market_Cap_Rank"}

Range(s) == {s[i] : i \in 1..Len(s)}

\* the value of a numeric column as a fraction
AsFrac(c, v) == IF c \in IntColumns THEN Frac(v, 1) ELSE v

get_sector(stock_symbol) == "Others"

MomentumStrength(x) ==
    IF x > 1 THEN "Very Strong" ELSE IF 2 * x > 1 THEN "Strong" ELSE "Moderate"

MomentumQuality(x) ==
    IF 10 * x < 0 - 3 THEN "Excellent" ELSE IF 10 * x < 0 - 1 THEN "Good" ELSE "Fair"

\* the columns run_daily_screening adds to the portfolio
WithSignals(pf) ==
    [i \in 1..Len(pf) |->
        pf[i] @@ [Sector |-> get_sector(pf[i].Symbol),
                  Market_Cap_Rank |-> i,
                  Momentum_Strength |-> MomentumStrength(pf[i].Momentum_12m),
                  Momentum_Quality |-> MomentumQuality(pf[i].FIP_Score),
                  Entry_Signal |-> "YES",
                  Stop_Loss |-> Frac(pf[i].Price * 85, 100),
                  Target_Price |-> Frac(pf[i].Price * 125, 100),
                  Max_Holding_Days |-> 90]]

\* a non-negative number rounded to 4 decimals, half to even, in ten-thousandths
Round4Units(f) ==
    LET twice == 2 * (f.num % f.den) * 10000 + f.den
        q == twice \div (2 * f.den)
    IN  (f.num \div f.den) * 10000
          + (IF twice % (2 * f.den) = 0 /\ q % 2 = 1 THEN q - 1 ELSE q)

\* portfolio[output_columns].copy().round(4)
OutputFrame(pf) ==
    [columns |-> Range(output_columns),
     rows |-> [i \in 1..Len(pf) |->
                 [c \in Range(output_columns) |->
                     IF c \in TextColumns THEN pf[i][c]
                     ELSE Frac(Round4Units(AsFrac(c, pf[i][c])), 10000)]]]

\* DataFrame.to_csv(path, index=False) of a frame of numbers of 4 decimals
ToCsv(df) ==
    [exists |-> TRUE,
     columns |-> df.columns,
     rows |-> [i \in 1..Len(df.rows) |->
                 [c \in df.columns |->
                     IF c \in TextColumns THEN df.rows[i][c]
                     ELSE (df.rows[i][c].num \div df.rows[i][c].den) * 10000
                            + ((df.rows[i][c].num % df.rows[i][c].den) * 10000)
                                 \div df.rows[i][c].den]]]

\* pd.read_csv(path)
ReadCsv(file) ==
    [columns |-> file.columns,
     rows |-> [i \in 1..Len(file.rows) |->
                 [c \in file.columns |->
                     IF c \in TextColumns THEN file.rows[i][c]
                     ELSE Frac(file.rows[i][c], 10000)]]]

rebalance_months == {2, 5, 8, 11}

TodayDates == {D(2024, 1, 31), D(2024, 2, 10), D(2024, 2, 29), D(2023, 5, 31)}

PersistInit ==
    /\ pc = "daily"
    /\ \E n \in 1..MaxStocks : stock_data \in [1..n -> StockOutcomes]
    /\ portfolio_size \in PortfolioSizes
    /\ portfolio = <<>>
    /\ ScoreIdle
    /\ FileIdle
    /\ start_date = NoDate
    /\ end_date = NoDate
    /\ rebalance_dates = <<>>
    /\ raised = FALSE
    /\ idx = 0
    /\ positions = <<>>
    /\ trades = <<>>
    /\ portfolio_value = 0
    /\ runs = 0
    /\ summary = NoSummary
    /\ selected = <<>>

\* run_daily_screening: screen, return if nothing was found, else add the
\* signal columns and write output/screening_results.csv
RunDailyScreening ==
    /\ pc = "daily"
    /\ portfolio' = screen_momentum_stocks(stock_data, ScreenDate, portfolio_size)
    /\ IF portfolio' = <<>>
       THEN /\ pc' = "no_results"
            /\ UNCHANGED output_dir
       ELSE /\ pc' = "saved"
            /\ output_dir' = [output_dir EXCEPT
                                !.screening_results = ToCsv(OutputFrame(WithSignals(portfolio')))]
    /\ UNCHANGED <<start_date, end_date, rebalance_dates, raised, idx, portfolio_size,
                   stock_data, positions, trades, portfolio_value, runs, summary,
                   selected, loaded, today>>
    /\ UNCHANGED scoreVars

\* check_if_rebalance_date for a given today: the last day of February (by
\* its own leap test), May, August or November; datetime(year, 2, 29) raises
\* ValueError in a year that is no leap year
check_if_rebalance_date(now) ==
    LET february == IF now.year % 4 # 0 THEN D(now.year, 2, 28) ELSE D(now.year, 2, 29)
    IN  IF february.day > DaysInMonth(now.year, 2)
        THEN [raised |-> TRUE, result |-> FALSE]
        ELSE [raised |-> FALSE,
              result |-> now \in {february, D(now.year, 5, 31), D(now.year, 8, 31),
                                  D(now.year, 11, 30)}]

\* the Symbol column of a frame as a set
SymbolSet(df) == {df.rows[i]["Symbol"] : i \in 1..Len(df.rows)}

\* line 81 when no previous file existed at line 46: the file written at line
\* 78 exists now, so len(removed) is evaluated, and removed was never bound
FirstRunEnds(new_portfolio) ==
    /\ pc' = "raised"
    /\ raised' = TRUE
    /\ output_dir' = [output_dir EXCEPT !.previous_portfolio = ToCsv(new_portfolio)]

\* execute_quarterly_rebalance on the day now
ExecuteQuarterlyRebalance ==
    /\ pc \in {"saved", "no_results", "not_rebalance_date", "no_screening", "raised"}
    /\ \E now \in TodayDates :
          /\ today' = now
          /\ IF now.month \notin rebalance_months
             THEN /\ pc' = "not_rebalance_date"
                  /\ raised' = FALSE
                  /\ UNCHANGED <<output_dir, loaded>>
             ELSE IF ~output_dir.screening_results.exists
             THEN /\ pc' = "no_screening"
                  /\ raised' = FALSE
                  /\ UNCHANGED <<output_dir, loaded>>
             ELSE LET new_portfolio == ReadCsv(output_dir.screening_results)
                  IN  /\ loaded' = new_portfolio
                      /\ IF output_dir.previous_portfolio.exists
                         THEN LET previous_portfolio == ReadCsv(output_dir.previous_portfolio)
                                  removed == SymbolSet(previous_portfolio) \ SymbolSet(new_portfolio)
                              IN  /\ pc' = "rebalanced"
                                  /\ raised' = FALSE
                                  /\ output_dir' =
                                       [output_dir EXCEPT
                                          !.previous_portfolio = ToCsv(new_portfolio),
                                          !.rebalance_alert =
                                             [exists |-> TRUE,
                                              stocks_removed |-> Cardinality(removed)]]
                         ELSE FirstRunEnds(new_portfolio)
    /\ UNCHANGED <<start_date, end_date, rebalance_dates, idx, portfolio_size,
                   stock_data, portfolio, positions, trades, portfolio_value, runs, summary,
                   selected>>
    /\ UNCHANGED scoreVars

PersistNext == RunDailyScreening \/ ExecuteQuarterlyRebalance

SpecPersist == PersistInit /\ [][PersistNext]_vars

RankedCandidateFields ==
    {"Symbol", "Momentum_12m", "FIP_Score", "Price", "Volume", "Date", "Momentum_Rank",
     "FIP_Rank", "Combined_Score"}

\* the value a loaded frame holds is the value the portfolio held
SameValue(c, before, after) ==
    IF c \in TextColumns THEN before = after
    ELSE IF c = "Date" THEN before = after
    ELSE FracEq(AsFrac(c, before), after)

\* C20: the frame read back from the saved file holds, for every row of the
\* portfolio, every Ranked Candidate field with the value it had before saving
C20_RoundTripExact ==
    (pc \in {"raised", "rebalanced"}) =>
        /\ RankedCandidateFields \subseteq loaded.columns
        /\ Len(loaded.rows) = Len(portfolio)
        /\ \A i \in 1..Len(portfolio) : \A c \in RankedCandidateFields :
              SameValue(c, portfolio[i][c], loaded.rows[i][c])


\* the gated rows of a universe with their FIP ranks and combined scores
GatedFrameOf(data) ==
    WithCombinedScore(WithFipRank(GateFilter(
        WithMomentumRank(CollectResults(data, ScreenDate, 1, <<>>)))))

GatedFrame == GatedFrameOf(stock_data)

\* stock i of the universe has scores and the gate shut it out
GateExcluded(i) ==
    /\ AppendsRow(stock_data[i])
    /\ StockList[i] \notin SymbolsOf(GatedFrame)

\* C21: among the gated candidates a lower FIP score never has the higher
\* FIP_Rank, and the gated rows, their FIP_Rank and Combined_Score stay the
\* same whatever the FIP score of a stock the gate shut out
C21_FipRankOverGatedOnly ==
    pc = "screened" =>
        LET gated == GatedFrame
            excluded == {i \in 1..Len(stock_data) :
                            AppendsRow(stock_data[i]) /\ StockList[i] \notin SymbolsOf(gated)}
        IN  /\ \A a, b \in 1..Len(gated) :
                  gated[a].FIP_Score <= gated[b].FIP_Score
                      => FracLE(gated[a].FIP_Rank, gated[b].FIP_Rank)
            /\ \A i \in excluded : \A f \in 1..MaxFip :
                  GatedFrameOf([stock_data EXCEPT ![i].FIP_Score = f]) = gated

\* the gate shut a scored stock out and two gated candidates differ in FIP
C21_Witness ==
    /\ pc = "screened"
    /\ \E i \in 1..Len(stock_data) : GateExcluded(i)
    /\ \E a, b \in 1..Len(GatedFrame) : GatedFrame[a].FIP_Score < GatedFrame[b].FIP_Score

\* C22: the Portfolio holds min(portfolio_size, number of gated candidates)
\* rows, in non-increasing order of Combined_Score, and no gated candidate
\* left out has a strictly greater Combined_Score than a returned one
C22_TopByCombinedScore ==
    pc = "screened" =>
        /\ Len(portfolio) = (IF portfolio_size < Len(GatedFrame)
                             THEN portfolio_size ELSE Len(GatedFrame))
        /\ \A k \in 1..(Len(portfolio) - 1) :
              FracLE(portfolio[k + 1].Combined_Score, portfolio[k].Combined_Score)
        /\ \A g \in 1..Len(GatedFrame) : \A k \in 1..Len(portfolio) :
              GatedFrame[g].Symbol \notin SymbolsOf(portfolio)
                  => ~FracLT(portfolio[k].Combined_Score, GatedFrame[g].Combined_Score)

\* the size cap cut a gated candidate whose score is strictly lower, and the
\* best gated candidate is not the first row
C22_Witness ==
    /\ pc = "screened"
    /\ portfolio # <<>>
    /\ Len(GatedFrame) > portfolio_size
    /\ portfolio[1].Symbol # GatedFrame[1].Symbol
    /\ \E g \in 1..Len(GatedFrame) :
          /\ GatedFrame[g].Symbol \notin SymbolsOf(portfolio)
          /\ FracLT(GatedFrame[g].Combined_Score, portfolio[Len(portfolio)].Combined_Score)


IsPrefix(s, t) == Len(s) <= Len(t) /\ SubSeq(t, 1, Len(s)) = s

\* C23: every step leaves the trades recorded so far in place: the trade list
\* before a step is a prefix of the trade list after it
C23_TradesAppendOnly == [][IsPrefix(trades, trades')]_vars

\* more trades than one pass can close: a later pass appended to a list that
\* already held trades
C23_Witness == Len(trades) > Len(BtStockList) /\ pc = "done"


\* no stock of the universe has scores and a Momentum_Rank within the gate
NothingPassesGate(data) ==
    LET df == WithMomentumRank(CollectResults(data, ScreenDate, 1, <<>>))
    IN  \A i \in 1..Len(df) : 10 * df[i].Momentum_Rank.num > 9 * df[i].Momentum_Rank.den

\* C24: a pass whose universe has no stock within the momentum gate gets an
\* empty Portfolio, and the backtest neither records a trade nor touches the
\* positions on that date
C24_EmptyGateSkipsDate ==
    [][(PassTaken /\ NothingPassesGate(stock_data'))
          => (portfolio' = <<>> /\ trades' = trades /\ positions' = positions /\ ~raised')]_vars

\* a pass with one scored stock, which the gate shuts out, while positions are held
C24_Witness ==
    /\ Len(selected) >= 2
    /\ selected[Len(selected)].skipped
    /\ \E i \in 1..Len(stock_data) : AppendsRow(stock_data[i])
    /\ NothingPassesGate(stock_data)
    /\ positions # <<>>


\* C25: every recorded trade left at the price it entered at, with a return of
\* 0, and every summary counts 0 winning trades
C25_TradesNeverMove ==
    /\ \A k \in 1..Len(trades) :
          /\ trades[k].Exit_Price = trades[k].Entry_Price
          /\ trades[k].Return_Pct.num = 0
    /\ \A k \in 1..Len(summary.rows) : summary.rows[k].Winning_Trades = 0

\* a finished run whose summary covers trades of two stocks at different prices
C25_Witness ==
    /\ pc = "done"
    /\ Len(summary.rows) = 1
    /\ \E a, b \in 1..Len(trades) : trades[a].Entry_Price # trades[b].Entry_Price


\* C26: every recorded trade left strictly later than it entered, so that the
\* average holding time of every summary is positive
C26_HoldingDaysPositive ==
    /\ \A k \in 1..Len(trades) :
          /\ DateLT(trades[k].Entry_Date, trades[k].Exit_Date)
          /\ trades[k].Holding_Days > 0
    /\ \A k \in 1..Len(summary.rows) : summary.rows[k].Avg_Holding_Days.num > 0


\* the stocks of the universe that have both scores
ValidStocks == {i \in 1..Len(stock_data) : AppendsRow(stock_data[i])}

\* C27: a universe with at least one stock that has both scores gets a
\* non-empty Portfolio, and a universe with exactly one such stock gets the
\* Portfolio made of that stock
C27_ValidStockGivesPortfolio ==
    (pc = "screened" /\ ValidStocks # {}) =>
        /\ portfolio # <<>>
        /\ \A i \in ValidStocks :
              ValidStocks = {i} => SymbolsOf(portfolio) = {StockList[i]}


\* a call that finds a new screening result, in a rebalance month, and no
\* previous portfolio
FirstRun ==
    /\ pc \in {"saved", "no_results", "not_rebalance_date", "no_screening", "raised"}
    /\ today'.month \in rebalance_months
    /\ output_dir.screening_results.exists
    /\ ~output_dir.previous_portfolio.exists

\* C28: the first run ends without an error, with the new portfolio saved as
\* the previous portfolio and an alert that reports 0 removed positions
C28_FirstRunCompletes ==
    [][FirstRun =>
          /\ ~raised'
          /\ pc' = "rebalanced"
          /\ output_dir'.previous_portfolio = output_dir.screening_results
          /\ output_dir'.rebalance_alert = [exists |-> TRUE, stocks_removed |-> 0]]_vars

\* a call got past the date check of execute_quarterly_rebalance
PastDateCheck ==
    /\ pc \in {"saved", "no_results", "not_rebalance_date", "no_screening", "raised"}
    /\ pc' \in {"no_screening", "raised", "rebalanced"}

\* C29: a call gets past the date check only on a day for which
\* check_if_rebalance_date is true
C29_ProceedsOnlyOnRebalanceDate ==
    [][PastDateCheck => check_if_rebalance_date(today').result]_vars


(***************************************************************************)
(* The inline fallback QuantitativeMomentumStrategy of scripts/screening.py *)
(* next to the main one: the same frame or universe given to both.         *)
(***************************************************************************)
FallbackMinReturns == 200

\* a fallback scorer that wants more returns than the slice can hold
fallback_calculate_generic_momentum_strict(sd) ==
    IF sd.bars < 252 THEN NoneMomentum
    ELSE IF ~sd.has_close THEN NoneMomentum
    ELSE LET returns_12m_skip1m == PySlice(pct_change(sd), 0 - 252, 0 - 21)
         IN  IF Len(returns_12m_skip1m) < 252 THEN NoneMomentum
             ELSE ProdOnePlusMinusOne(returns_12m_skip1m)

fallback_calculate_generic_momentum(sd) ==
    IF sd.bars < 252 THEN NoneMomentum
    ELSE IF ~sd.has_close THEN NoneMomentum
    ELSE LET returns_12m_skip1m == PySlice(pct_change(sd), 0 - 252, 0 - 21)
         IN  IF Len(returns_12m_skip1m) < FallbackMinReturns THEN NoneMomentum
             ELSE ProdOnePlusMinusOne(returns_12m_skip1m)

fallback_calculate_fip_score(sd) ==
    IF sd.bars < fip_lookback_days THEN NoneFip
    ELSE IF ~sd.has_close THEN NoneFip
    ELSE LET returns == PySlice(pct_change(sd), 0 - 252, 0)
         IN  IF Len(returns) < FallbackMinReturns THEN NoneFip
             ELSE [none |-> FALSE,
                   score |-> Frac(Count(returns, "up") - Count(returns, "down"),
                                  Len(returns))]

\* the fallback's screen_momentum_stocks: no copy() and no reset_index
fallback_screen_momentum_stocks(data, date, size) ==
    LET results == CollectResultsOf(StockList, data, date, 1, <<>>)
        df == [i \in 1..Len(results) |->
                  results[i] @@ ("Momentum_Rank" :> RankDescPct(results, i))]
        top_momentum == SelectSeq(df, LAMBDA r : FracLE(r.Momentum_Rank, Frac(90, 100)))
        ranked == [i \in 1..Len(top_momentum) |->
                      top_momentum[i] @@ ("FIP_Rank" :> RankAscPct(top_momentum, i))]
        scored == [i \in 1..Len(ranked) |->
                      ranked[i] @@ ("Combined_Score" :> CombinedScore(ranked[i]))]
    IN  IF results = <<>> THEN <<>>
        ELSE IF Len(top_momentum) = 0 THEN <<>>
        ELSE SortValuesDesc(nlargest(scored, size), <<>>)

FallbackInit == ScoreInit \/ ScreenInit

FallbackNext == ScoreStock \/ ScreenMomentumStocks

SpecFallback == FallbackInit /\ [][FallbackNext]_vars

\* C30: for every frame the fallback scorers return what the main scorers
\* return, None included, and for every universe the fallback screening
\* returns the Portfolio of the main screening: same rows, ranks, scores, order
C30_FallbackEquivalent ==
    /\ pc = "scored" =>
          /\ fallback_calculate_generic_momentum(series) = momentum
          /\ fallback_calculate_fip_score(series) = fip_score
    /\ pc = "screened" =>
          fallback_screen_momentum_stocks(stock_data, ScreenDate, portfolio_size) = portfolio

\* a frame of exactly 252 bars that both scorers of the main strategy accept
C30_Witness ==
    /\ pc = "scored"
    /\ series.bars = 252
    /\ ~momentum.none
    /\ ~fip_score.none

====
